---- MODULE Spec2Model ----
(***************************************************************************)
(* The request adapter of the admin front-end (utils/request.js): header,  *)
(* URL, query-string and body normalisation, the dispatch, the status      *)
(* check with the 401 token revalidation, JSON parsing and the server      *)
(* restart watch.  The adapter exists twice in the repository             *)
(* (src/unnamed/part_000 and strapi-helper-plugin's utils/request.js); the *)
(* two differ only in the multipart body transform, so a call names the    *)
(* copy it runs ("admin" for part_000, "helper" for the helper plugin).    *)
(*                                                                         *)
(* Strings that the code inspects (URLs, query keys and values) are        *)
(* sequences of one-character strings; values the code only passes on      *)
(* (backendURL, remoteURL, the token) are single opaque symbols.           *)
(*                                                                         *)
(* The InputFile widget (src/unnamed/part_001) in multiple mode: the files *)
(* and captions it collects and the change events it hands to its parent.  *)
(***************************************************************************)
EXTENDS Integers, Sequences, FiniteSets, TLC

VARIABLES
  token,      \* the token store: what auth.getToken() returns
  location,   \* window.location
  locked,     \* the host's overlay flag: set by lockApp, cleared by unlockApp
  req,        \* per call of request(): its arguments, position and outcome
  widget      \* the InputFile widget: its props, its state, what it emitted

vars == <<token, location, locked, req, widget>>

----------------------------------------------------------------------------
(* Bounds of the model.                                                    *)

MaxReqs == 2          \* calls of request() that may be in flight together
MaxHealthFails == 2   \* failed health checks the network produces per call
MaxParams == 2        \* entries of an options.params object
MaxBodyEntries == 3   \* entries of a multipart body
MaxFiles == 3         \* files the InputFile widget's value may hold
MaxDrop == 2          \* files of one FileList handed to the widget

Reqs == 1..MaxReqs

----------------------------------------------------------------------------
(* Host configuration and fixed values of the code.                        *)

NoToken == "null"
Tok == "tok"
TokenValues == {Tok, NoToken}

BackendURL == <<"<backendURL>">>
RemoteURL == <<"<remoteURL>">>
AppURL == <<"<app>">>

UserMeURL == BackendURL \o <<"/user/me">>
HealthURL == BackendURL \o <<"/_health">>
LoginURL == RemoteURL \o <<"/plugins/users-permissions/auth/login">>
RetryDelay == 100

Bearer(tok) == "Bearer " \o tok

----------------------------------------------------------------------------
(* Strings.                                                                *)

RECURSIVE Flatten(_)
Flatten(ss) == IF ss = <<>> THEN <<>> ELSE Head(ss) \o Flatten(Tail(ss))

RECURSIVE Join(_, _)
Join(ss, sep) ==
  IF ss = <<>> THEN <<>>
  ELSE IF Len(ss) = 1 THEN Head(ss)
  ELSE Head(ss) \o sep \o Join(Tail(ss), sep)

\* _.startsWith(url, '/')
startsWith(s, c) == Len(s) >= 1 /\ s[1] = c

\* The characters encodeURIComponent leaves alone (those the model uses).
Unreserved == {"a", "b", "1", "-", "_", "."}

\* The UTF-8 percent escape of every other character the model uses.
Escape(c) ==
  CASE c = " " -> <<"%", "2", "0">>
    [] c = "&" -> <<"%", "2", "6">>
    [] c = "=" -> <<"%", "3", "D">>
    [] c = "/" -> <<"%", "2", "F">>
    [] c = "%" -> <<"%", "2", "5">>
    [] c = "?" -> <<"%", "3", "F">>

EncodeChar(c) == IF c \in Unreserved THEN <<c>> ELSE Escape(c)

encodeURIComponent(s) == Flatten([i \in 1..Len(s) |-> EncodeChar(s[i])])

\* A mutant: "&" and "=" are passed through unescaped.
formatPairRaw(p) == p[1] \o <<"=">> \o p[2]

\* `${encodeURIComponent(k)}=${encodeURIComponent(params[k])}`
formatPair(p) == encodeURIComponent(p[1]) \o <<"=">> \o encodeURIComponent(p[2])

\* params is the object's entries, <<key, value>>, in Object.keys order.
formatQueryParams(params) ==
  Join([i \in 1..Len(params) |-> formatPair(params[i])], <<"&">>)

----------------------------------------------------------------------------
(* Headers: objects as functions from header name to value.                *)

EmptyObject == [k \in {} |-> ""]

Assign2(a, b) ==
  [k \in DOMAIN a \cup DOMAIN b |-> IF k \in DOMAIN b THEN b[k] ELSE a[k]]

\* Object.assign(a, b, c) on fresh objects: later sources win.
ObjectAssign(a, b, c) == Assign2(Assign2(a, b), c)

DefaultHeaders ==
  ObjectAssign([k \in {"Content-Type"} |-> "application/json"],
               EmptyObject,
               [k \in {"X-Forwarded-Host"} |-> "strapi"])

\* A mutant: the token's Authorization replaces the caller's.
normalizeHeadersTokenWins(options, tok) ==
  LET h == IF ~options.hasHeaders THEN DefaultHeaders ELSE options.headers
  IN  IF tok # NoToken
        THEN Assign2(h, [k \in {"Authorization"} |-> Bearer(tok)])
        ELSE h

\* options.headers is absent (hasHeaders = FALSE) or an object, maybe empty.
normalizeHeaders(options, tok) ==
  LET h == IF ~options.hasHeaders THEN DefaultHeaders ELSE options.headers
  IN  IF tok # NoToken
        THEN Assign2([k \in {"Authorization"} |-> Bearer(tok)], h)
        ELSE h

----------------------------------------------------------------------------
(* URL.                                                                    *)

\* A mutant: the backend URL is prefixed to every url.
prefixURLAlways(url) == BackendURL \o url

\* url = _.startsWith(url, '/') ? `${strapi.backendURL}${url}` : url
prefixURL(url) == IF startsWith(url, "/") THEN BackendURL \o url ELSE url

\* if (options && options.params) url = `${url}?${params}`
appendParams(url, options) ==
  IF options.hasParams
    THEN url \o <<"?">> \o formatQueryParams(options.params)
    ELSE url

normalizeURL(url, options) == appendParams(prefixURL(url), options)

----------------------------------------------------------------------------
(* The multipart body: FormData as the sequence of its entries.  An entry  *)
(* is a File (value: the file, caption: its caption attribute, maybe       *)
(* undefined) or a string (value: the text).                               *)

Undefined == "<undefined>"

\* FormData.append converts a value that is no File to a string.
StringOf(v) == IF v = Undefined THEN "undefined" ELSE v

FileEntry(name, file, caption) ==
  [name |-> name, isFile |-> TRUE, value |-> file, caption |-> caption]

StringEntry(name, text) ==
  [name |-> name, isFile |-> FALSE, value |-> StringOf(text), caption |-> Undefined]

IsFile(e) == e.isFile

RECURSIVE Dedup(_)
\* Array.from(new Set(a)): first occurrences, in order.
Dedup(a) ==
  IF a = <<>> THEN <<>>
  ELSE LET rest == Dedup(Tail(a))
       IN  <<Head(a)>> \o SelectSeq(rest, LAMBDA x : x # Head(a))

\* The names of the entries that are Files, one per such entry.
fileFields(body) ==
  LET files == SelectSeq(body, IsFile)
  IN  [i \in 1..Len(files) |-> files[i].name]

\* FormData.getAll(field)
getAll(body, field) == SelectSeq(body, LAMBDA e : e.name = field)

RECURSIVE appendCaptions(_, _)
\* for (field of fileFields) for (fileEntry of body.getAll(field))
\*   if (fileEntry instanceof File) body.append(`${field}Captions`, fileEntry.caption)
appendCaptions(body, fields) ==
  IF fields = <<>> THEN body
  ELSE LET field == Head(fields)
           files == SelectSeq(getAll(body, field), IsFile)
           added == [i \in 1..Len(files) |->
                       StringEntry(field \o "Captions", files[i].caption)]
       IN  appendCaptions(body \o added, Tail(fields))

\* part_000: the captions are appended as sibling fields.
captionsAdmin(body) == appendCaptions(body, Dedup(fileFields(body)))

\* The helper plugin's copy: each field's {caption, file} pairs are collected
\* in a local array that is never used; the body is dispatched as it came.
captionsHelper(body) == body

NoBody == [present |-> FALSE, json |-> FALSE, entries |-> <<>>]

\* The body handed to fetch: the JSON text of the body, the multipart body
\* after the caption transform, or none.
transformBody(variant, options, stringify) ==
  IF options.hasBody /\ stringify
    THEN [present |-> TRUE, json |-> TRUE, entries |-> options.body]
  ELSE IF options.hasBody
    THEN [present |-> TRUE, json |-> FALSE,
          entries |-> IF variant = "admin" THEN captionsAdmin(options.body)
                      ELSE captionsHelper(options.body)]
  ELSE NoBody

----------------------------------------------------------------------------
(* Values the code only passes on: a response object, its statusText and   *)
(* its parsed JSON body, each named after the fetch that produced it.      *)

None == <<"none">>
MainResponse(r) == <<"response", "main", r>>
StatusTextOf(response) == <<"statusText">> \o response
JsonOf(response) == <<"json">> \o response
NetworkError(call, r) == <<"TypeError", call, r>>

NoResult ==
  [kind |-> "none", message |-> None, response |-> None, payload |-> None,
   value |-> None]

\* What the code does to the outside, in order: one entry per call.
Act(op, method, url, auth, delay) ==
  [op |-> op, method |-> method, url |-> url, auth |-> auth, delay |-> delay]

FetchAct(url) == Act("fetch", "", url, "", 0)
UserMeAct(tok) == Act("fetch /user/me", "GET", UserMeURL, Bearer(tok), 0)
HealthAct == Act("fetch /_health", "HEAD", HealthURL, "", 0)
RedirectAct == Act("redirect", "", LoginURL, "", 0)
ClearAct == Act("clearAppStorage", "", <<>>, "", 0)
LockAct == Act("lockApp", "", <<>>, "", 0)
UnlockAct == Act("unlockApp", "", <<>>, "", 0)
TimerAct == Act("setTimeout", "", <<>>, "", RetryDelay)

NoOptions ==
  [hasHeaders |-> FALSE, headers |-> EmptyObject,
   hasParams |-> FALSE, params |-> <<>>,
   hasBody |-> FALSE, body |-> <<>>]

NoSent == [url |-> <<>>, headers |-> EmptyObject, body |-> NoBody]

IdleReq(r) ==
  [id |-> r, phase |-> "idle", variant |-> "admin", url |-> <<>>,
   options |-> NoOptions, watch |-> FALSE, stringify |-> TRUE,
   sent |-> NoSent, tokAtCall |-> NoToken, tokAtCheck |-> NoToken,
   fetch |-> "none", status |-> 0, hasJson |-> FALSE, jsonFor |-> "none",
   json |-> "none", userme |-> "none",
   fails |-> 0, value |-> None, acts |-> <<>>, result |-> NoResult]

----------------------------------------------------------------------------
(* The collaborators the adapter calls: the token store, the host's        *)
(* overlay and the browsing context.                                       *)

\* auth.clearAppStorage(): the stored credentials are gone.
clearAppStorage(tok) == NoToken

\* strapi.lockApp() / strapi.unlockApp() on the host's overlay flag.
lockApp(flag) == TRUE
unlockApp(flag) == FALSE

----------------------------------------------------------------------------
(* The adapter, as functions from a call's record to its next record.  A   *)
(* handler appends to acts what it does to the outside; Commit applies     *)
(* those effects to the shared state.                                      *)

\* request(): the normalisation of headers, url and body, and the dispatch.
request(r, variant, url, options, watch, stringify, tok) ==
  LET sent == [url |-> normalizeURL(url, options),
               headers |-> normalizeHeaders(options, tok),
               body |-> transformBody(variant, options, stringify)]
  IN  [IdleReq(r) EXCEPT !.phase = "fetch", !.fetch = "pending",
                         !.variant = variant, !.url = url,
                         !.options = options, !.watch = watch,
                         !.stringify = stringify, !.sent = sent,
                         !.tokAtCall = tok, !.acts = <<FetchAct(sent.url)>>]

Reject(q, kind, message) ==
  [q EXCEPT !.phase = "rejected",
            !.result = [NoResult EXCEPT !.kind = kind, !.message = message]]

\* A mutant: the payload is the response, not its parsed body.
throwErrorRawPayload(q, responseFormatted) ==
  [q EXCEPT !.phase = "rejected",
            !.result = [NoResult EXCEPT !.kind = "http",
                          !.message = StatusTextOf(MainResponse(q.id)),
                          !.response = MainResponse(q.id),
                          !.payload = MainResponse(q.id)]]

\* const error = new Error(response.statusText); error.response = response;
\* error.response.payload = responseFormatted; throw error
throwError(q, responseFormatted) ==
  [q EXCEPT !.phase = "rejected",
            !.result = [NoResult EXCEPT !.kind = "http",
                          !.message = StatusTextOf(MainResponse(q.id)),
                          !.response = MainResponse(q.id),
                          !.payload = responseFormatted]]

\* A mutant: every health check shows the overlay again.
serverRestartWatcherRelock(q) ==
  [q EXCEPT !.phase = "health", !.acts = @ \o <<LockAct, HealthAct>>]

\* One health check: fetch(`${strapi.backendURL}/_health`, {method: 'HEAD'}).
serverRestartWatcher(q) ==
  [q EXCEPT !.phase = "health", !.acts = @ \o <<HealthAct>>]

\* A mutant: the watch is entered without showing the overlay.
watchOrReturnNoLock(q, response) ==
  IF q.watch
    THEN serverRestartWatcher([q EXCEPT !.value = response])
    ELSE [q EXCEPT !.phase = "resolved",
                   !.result = [NoResult EXCEPT !.kind = "value",
                                               !.value = response]]

\* The last .then of request(): the parsed response.
watchOrReturn(q, response) ==
  IF q.watch
    THEN serverRestartWatcher([q EXCEPT !.value = response,
                                        !.acts = @ \o <<LockAct>>])
    ELSE [q EXCEPT !.phase = "resolved",
                   !.result = [NoResult EXCEPT !.kind = "value",
                                               !.value = response]]

\* A mutant: the parsed body of an error response is passed on, not thrown.
parsedNeverThrows(q, body, for) == watchOrReturn(q, body)

\* What follows a parsed body: the rest of request()'s chain, or the throw
\* inside checkStatus.
parsed(q, body, for) ==
  IF for = "ok" THEN watchOrReturn(q, body) ELSE throwError(q, body)

\* response.json ? response.json() : response
parseJSON(q, for) ==
  IF q.hasJson
    THEN [q EXCEPT !.phase = "json", !.jsonFor = for, !.json = "pending"]
    ELSE parsed(q, MainResponse(q.id), for)

\* The fetch of /user/me; without a token the function returns undefined,
\* and the parseJSON that follows throws a TypeError.
checkTokenValidity(q, tok) ==
  IF tok # NoToken
    THEN [q EXCEPT !.phase = "userme", !.userme = "pending",
                   !.acts = @ \o <<UserMeAct(tok)>>]
    ELSE Reject(q, "type", None)

\* A mutant: the revalidation is entered whether or not a token is stored.
checkStatusNoTokenTest(q, checkToken, tok) ==
  IF q.status >= 200 /\ q.status < 300 THEN parseJSON(q, "ok")
  ELSE IF q.status = 401 /\ checkToken
    THEN [q EXCEPT !.phase = "userme", !.userme = "pending",
                   !.acts = @ \o <<UserMeAct(tok)>>]
  ELSE parseJSON(q, "error")

\* A mutant: every client or server error with a token stored is revalidated.
checkStatusAnyError(q, checkToken, tok) ==
  IF q.status >= 200 /\ q.status < 300 THEN parseJSON(q, "ok")
  ELSE IF q.status >= 400 /\ tok # NoToken /\ checkToken
    THEN checkTokenValidity(q, tok)
  ELSE parseJSON(q, "error")

\* A mutant: the lower end of the success range is excluded.
checkStatusAbove200(q, checkToken, tok) ==
  IF q.status > 200 /\ q.status < 300 THEN parseJSON(q, "ok")
  ELSE IF q.status = 401 /\ tok # NoToken /\ checkToken
    THEN checkTokenValidity(q, tok)
  ELSE parseJSON(q, "error")

checkStatus(q, checkToken, tok) ==
  IF q.status >= 200 /\ q.status < 300 THEN parseJSON(q, "ok")
  ELSE IF q.status = 401 /\ tok # NoToken /\ checkToken
    THEN checkTokenValidity(q, tok)
  ELSE parseJSON(q, "error")

\* A mutant: the stored state is cleared before the redirect.
userMeThenClearFirst(q, tok) ==
  IF q.status = 401
    THEN checkStatus([q EXCEPT !.acts = @ \o <<ClearAct, RedirectAct>>],
                     FALSE, clearAppStorage(tok))
    ELSE checkStatus(q, FALSE, tok)

\* A mutant: a token that /user/me accepts is kept.
userMeThenIfRefused(q, tok) ==
  IF q.status = 401 /\ q.userme # "2xx"
    THEN checkStatus([q EXCEPT !.acts = @ \o <<RedirectAct, ClearAct>>],
                     FALSE, clearAppStorage(tok))
    ELSE checkStatus(q, FALSE, tok)

\* A mutant: the response is checked once more with checkToken = true while
\* the token is still stored.
userMeThenRecheck(q, tok) ==
  IF q.status = 401 /\ Len(q.acts) < 4
    THEN checkStatus([q EXCEPT !.acts = @ \o <<RedirectAct>>], TRUE, tok)
  ELSE IF q.status = 401
    THEN checkStatus([q EXCEPT !.acts = @ \o <<RedirectAct, ClearAct>>],
                     FALSE, clearAppStorage(tok))
  ELSE checkStatus(q, FALSE, tok)

\* The .then of the /user/me fetch.
userMeThen(q, tok) ==
  IF q.status = 401
    THEN checkStatus([q EXCEPT !.acts = @ \o <<RedirectAct, ClearAct>>],
                     FALSE, clearAppStorage(tok))
    ELSE checkStatus(q, FALSE, tok)

\* A mutant: the retried watcher's promise is not chained to resolve: after a
\* failed check, a success hides the overlay and settles nothing.
healthThenUnchained(q) ==
  IF q.fails > 0
    THEN [q EXCEPT !.phase = "unchained", !.acts = @ \o <<UnlockAct>>]
    ELSE [q EXCEPT !.phase = "resolved", !.acts = @ \o <<UnlockAct>>,
                   !.result = [NoResult EXCEPT !.kind = "value",
                                               !.value = q.value]]

\* The .then of a health check.
healthThen(q) ==
  [q EXCEPT !.phase = "resolved", !.acts = @ \o <<UnlockAct>>,
            !.result = [NoResult EXCEPT !.kind = "value", !.value = q.value]]

\* A mutant: the watch gives up after the second failed check.
healthCatchGiveUp(q) ==
  IF q.fails >= 1
    THEN Reject([q EXCEPT !.fails = @ + 1], "network", NetworkError("health", q.id))
    ELSE [q EXCEPT !.phase = "timer", !.fails = @ + 1, !.acts = @ \o <<TimerAct>>]

\* The .catch of a health check: setTimeout(..., 100).
healthCatch(q) ==
  [q EXCEPT !.phase = "timer", !.fails = @ + 1, !.acts = @ \o <<TimerAct>>]

NewActs(q, q2) == SubSeq(q2.acts, Len(q.acts) + 1, Len(q2.acts))

Commit(r, q2) ==
  LET new == NewActs(req[r], q2)
      did(op) == \E i \in 1..Len(new) : new[i].op = op
  IN  /\ req' = [req EXCEPT ![r] = q2]
      /\ token' = IF did("clearAppStorage") THEN clearAppStorage(token) ELSE token
      /\ location' = IF did("redirect") THEN LoginURL ELSE location
      /\ locked' = IF did("lockApp") THEN lockApp(locked)
                   ELSE IF did("unlockApp") THEN unlockApp(locked)
                   ELSE locked
      /\ UNCHANGED widget

----------------------------------------------------------------------------
(* Inputs.                                                                 *)

\* The statuses a response may carry: the ends of the success range, 401
\* and its neighbours, other errors.
Statuses == {200, 204, 299, 300, 400, 401, 402, 404, 500}

\* The statuses of the concurrent specification: one of each kind.
LifeStatuses == {200, 401, 404}

Args(variant, url, options, watch, stringify) ==
  [variant |-> variant, url |-> url, options |-> options, watch |-> watch,
   stringify |-> stringify]

\* The calls of the life-cycle specifications: a path, default options.
LifeArgs == {Args("admin", <<"/", "a">>, NoOptions, w, TRUE) : w \in BOOLEAN}

Urls == {<<"/", "a">>, <<"a", "/">>, <<"a">>, <<"/">>, <<>>}
ParamKeys == {<<"a">>, <<"=">>, <<"a", "&">>}
ParamVals == {<<"b">>, <<"&", "=">>, <<"%", " ">>}

\* An options.params object: its entries in key order, the keys distinct.
ParamsOfLen(n) ==
  {p \in [1..n -> ParamKeys \X ParamVals] :
     \A i, j \in 1..n : i # j => p[i][1] # p[j][1]}
ParamObjects == UNION {ParamsOfLen(n) : n \in 0..MaxParams}

UrlOptions ==
  {NoOptions} \cup
  {[NoOptions EXCEPT !.hasParams = TRUE, !.params = p] : p \in ParamObjects}

BodyEntries ==
  {FileEntry("f", "file1", "c1"), FileEntry("f", "file2", Undefined),
   FileEntry("g", "file3", "c2"), StringEntry("f", "s"),
   StringEntry("fCaptions", "t")}
Bodies == UNION {[1..n -> BodyEntries] : n \in 0..MaxBodyEntries}

BodyOptions == {[NoOptions EXCEPT !.hasBody = TRUE, !.body = b] : b \in Bodies}

HeaderObjects ==
  {EmptyObject,
   [k \in {"Authorization"} |-> "Basic x"],
   [k \in {"Content-Type"} |-> "text/plain"],
   [k \in {"Authorization", "X-Forwarded-Host"} |->
      IF k = "Authorization" THEN "Basic x" ELSE "other"]}

HeaderOptions ==
  {[NoOptions EXCEPT !.hasHeaders = TRUE, !.headers = h] : h \in HeaderObjects}

\* The calls of the dispatch specification: urls and params, multipart
\* bodies under both copies of the adapter, caller headers.
DispatchArgs ==
  {Args("admin", u, o, FALSE, TRUE) : u \in Urls, o \in UrlOptions}
  \cup {Args(v, <<"/", "a">>, o, FALSE, s) :
          v \in {"admin", "helper"}, o \in BodyOptions, s \in BOOLEAN}
  \cup {Args("admin", <<"/", "a">>, o, FALSE, TRUE) : o \in HeaderOptions}

----------------------------------------------------------------------------
(* The InputFile widget, multiple = true.  An array is the sequence of its *)
(* elements, indexed from 0 as in the code; a File is its identity and its *)
(* caption attribute.  props.value is an array of Files or, once the       *)
(* parent has stored the value of an emptying change event, the string ''. *)

CaptionTexts == {"x"}
FileIds == 1..MaxFiles

File(id, caption) == [id |-> id, caption |-> caption]

\* a[i], undefined past the end.
At(a, i) == IF i < Len(a) THEN a[i + 1] ELSE Undefined

\* a[i] = v: the array grows, with holes, to hold index i.
SetAt(a, i, v) ==
  [k \in 1..(IF i + 1 > Len(a) THEN i + 1 ELSE Len(a)) |->
     IF k = i + 1 THEN v ELSE IF k <= Len(a) THEN a[k] ELSE Undefined]

\* a.splice(start, 1): what is left in a, and what the call returns.
spliceLeft(a, start) ==
  IF start < Len(a)
    THEN SubSeq(a, 1, start) \o SubSeq(a, start + 2, Len(a))
    ELSE a
spliceReturned(a, start) == IF start < Len(a) THEN <<a[start + 1]>> ELSE <<>>

\* The label the host shows: setLabel(false) or setLabel(n).
NoLabel == [shown |-> FALSE, number |-> 0]
Label(n) == [shown |-> TRUE, number |-> n]

\* The target of a change event: { name, type: 'file', value }, the value an
\* array (Target) or '' (EmptyTarget); by names the handler that emitted it.
Target(by, value) ==
  [by |-> by, type |-> "file", isString |-> FALSE, value |-> value]
EmptyTarget(by) ==
  [by |-> by, type |-> "file", isString |-> TRUE, value |-> <<>>]
NoEvent == [by |-> "none", type |-> "", isString |-> FALSE, value |-> <<>>]

InitialWidget ==
  [value |-> <<>>, isString |-> FALSE,
   didDeleteFile |-> FALSE, isUploading |-> FALSE, position |-> 0,
   captions |-> <<>>, label |-> NoLabel, event |-> NoEvent,
   entered |-> [f \in FileIds |-> Undefined]]

\* The ids of the files of an array.
IdsOf(value) == {value[i].id : i \in 1..Len(value)}

RECURSIVE Ascending(_)
\* The elements of a set of numbers, smallest first.
Ascending(S) ==
  IF S = {} THEN <<>>
  ELSE LET m == CHOOSE x \in S : \A y \in S : x <= y
       IN  <<m>> \o Ascending(S \ {m})

\* A FileList of n File objects that the value does not hold.
FileList(w, n) == SubSeq(Ascending(FileIds \ IdsOf(w.value)), 1, n)

\* The parent's onChange: it stores the target's value as the widget's
\* props.value.
onChange(w, target) ==
  [w EXCEPT !.value = target.value, !.isString = target.isString,
            !.event = target]

\* The host's setLabel.
setLabel(w, label) == [w EXCEPT !.label = label]

\* updateFilePosition(newPosition, size = this.props.value.length)
updateFilePosition(w, newPosition, size) ==
  LET label == IF size = 0 THEN NoLabel ELSE Label(newPosition + 1)
  IN  [setLabel(w, label) EXCEPT !.position = newPosition]

\* isVisibleDetails(): the details, with the delete button, are rendered.
isVisibleDetails(w) == ~w.isString /\ Len(w.value) > 0

\* addFilesToProps(files): files is the FileList, fresh File objects.  On a
\* props.value of '' the reduce calls ''.push and throws a TypeError, before
\* anything is set or emitted.
addFilesToProps(w, files) ==
  IF Len(files) = 0 THEN w
  ELSE IF w.isString THEN w
  ELSE LET added == [k \in 1..Len(files) |->
                       File(files[k], At(w.captions, k - 1))]
           value == w.value \o added
       IN  onChange([w EXCEPT !.isUploading = ~@],
                    Target("addFilesToProps", value))

\* A mutant: the last file is removed, whatever the position.
handleFileDeletePop(w) ==
  LET value == SubSeq(w.value, 1, Len(w.value) - 1)
      captions == spliceReturned(w.captions, w.position)
      newPosition == IF Len(value) = 0 THEN 0 ELSE Len(value) - 1
      target == IF Len(value) = 0 THEN EmptyTarget("handleFileDelete")
                ELSE Target("handleFileDelete", value)
      emitted == onChange([w EXCEPT !.captions = captions], target)
  IN  [updateFilePosition(emitted, newPosition, Len(value))
         EXCEPT !.didDeleteFile = ~@]

\* handleFileDelete(e)
handleFileDelete(w) ==
  LET value == spliceLeft(w.value, w.position)
      captions == spliceReturned(w.captions, w.position)
      newPosition == IF Len(value) = 0 THEN 0 ELSE Len(value) - 1
      target == IF Len(value) = 0 THEN EmptyTarget("handleFileDelete")
                ELSE Target("handleFileDelete", value)
      emitted == onChange([w EXCEPT !.captions = captions], target)
  IN  [updateFilePosition(emitted, newPosition, Len(value))
         EXCEPT !.didDeleteFile = ~@]

\* addCaptionToValue(e): text is e.target.value.
addCaptionToValue(w, text) ==
  LET captioned == [w EXCEPT !.captions = SetAt(@, w.position, text)]
  IN  IF ~w.isString /\ w.position < Len(w.value)
        THEN onChange(captioned,
                      Target("addCaptionToValue",
                             [w.value EXCEPT ![w.position + 1].caption = text]))
        ELSE captioned

----------------------------------------------------------------------------
(* The state machine.                                                      *)

Init ==
  /\ token \in TokenValues
  /\ location = AppURL
  /\ locked = FALSE
  /\ req = [r \in Reqs |-> IdleReq(r)]
  /\ widget = InitialWidget

\* A call of request(); the calls are numbered in the order they are made.
Request(r, a) ==
  /\ req[r].phase = "idle"
  /\ \A p \in Reqs : p < r => req[p].phase # "idle"
  /\ Commit(r, request(r, a.variant, a.url, a.options, a.watch, a.stringify,
                       token))

\* The main fetch resolves with a response: .then(checkStatus).then(parseJSON)
MainFetchResolve(r, statuses) ==
  /\ req[r].phase = "fetch"
  /\ \E s \in statuses, j \in BOOLEAN :
       Commit(r, checkStatus([req[r] EXCEPT !.fetch = "resolved", !.status = s,
                                            !.hasJson = j, !.tokAtCheck = token],
                             TRUE, token))

\* The main fetch rejects: a network failure.
MainFetchFail(r) ==
  /\ req[r].phase = "fetch"
  /\ Commit(r, Reject([req[r] EXCEPT !.fetch = "failed"], "network",
                      NetworkError("main", r)))

\* The /user/me fetch resolves, with whatever status.
UserMeResolve(r) ==
  /\ req[r].phase = "userme"
  /\ \E outcome \in {"2xx", "error status"} :
       Commit(r, userMeThen([req[r] EXCEPT !.userme = outcome], token))

\* The /user/me fetch rejects: no handler is attached for that.
UserMeFail(r) ==
  /\ req[r].phase = "userme"
  /\ Commit(r, Reject([req[r] EXCEPT !.userme = "failed"], "network",
                      NetworkError("user/me", r)))

\* response.json() resolves with the parsed body.
JsonResolve(r) ==
  /\ req[r].phase = "json"
  /\ Commit(r, parsed([req[r] EXCEPT !.json = "resolved"],
                       JsonOf(MainResponse(r)), req[r].jsonFor))

\* response.json() rejects: the body is no JSON text.
JsonReject(r) ==
  /\ req[r].phase = "json"
  /\ Commit(r, Reject([req[r] EXCEPT !.json = "failed"], "syntax", None))

HealthResolve(r) ==
  /\ req[r].phase = "health"
  /\ Commit(r, healthThen(req[r]))

HealthFail(r) ==
  /\ req[r].phase = "health"
  /\ req[r].fails < MaxHealthFails
  /\ Commit(r, healthCatch(req[r]))

\* The retry timer fires: serverRestartWatcher(response).then(resolve)
TimerFire(r) ==
  /\ req[r].phase = "timer"
  /\ Commit(r, serverRestartWatcher(req[r]))

\* The completions of the fetches a call makes, the main response carrying
\* one of the given statuses.
Network(r, statuses) ==
  \/ MainFetchResolve(r, statuses)
  \/ MainFetchFail(r)
  \/ UserMeResolve(r)
  \/ UserMeFail(r)
  \/ JsonResolve(r)
  \/ JsonReject(r)
  \/ HealthResolve(r)
  \/ HealthFail(r)
  \/ TimerFire(r)

\* Concurrent calls.
Next ==
  \/ \E r \in Reqs, a \in LifeArgs : Request(r, a)
  \/ \E r \in Reqs : Network(r, LifeStatuses)

Spec == Init /\ [][Next]_vars

\* One call, over every status.
NextOne ==
  \/ \E a \in LifeArgs : Request(1, a)
  \/ Network(1, Statuses)

SpecOne == Init /\ [][NextOne]_vars

\* One unwatched call, over the inputs of the normalisation.
NextDispatch ==
  \/ \E a \in DispatchArgs : Request(1, a)
  \/ MainFetchResolve(1, {200, 404})
  \/ MainFetchFail(1)
  \/ JsonResolve(1)
  \/ JsonReject(1)

SpecDispatch == Init /\ [][NextDispatch]_vars

\* A health check fails after the network's bound of counted failures: the
\* timer is set again as after every failure (healthCatch); the count and the
\* log keep the first MaxHealthFails failed checks.
HealthFailAgain(r) ==
  /\ req[r].phase = "health"
  /\ req[r].fails = MaxHealthFails
  /\ LET q2 == healthCatch(req[r])
     IN  req' = [req EXCEPT ![r] =
                   [q2 EXCEPT !.fails = MaxHealthFails,
                              !.acts = SubSeq(@, 1, Len(@) - 2)]]
  /\ UNCHANGED <<token, location, locked, widget>>

\* What the event loop does for call r: a fetch or a json() of the call
\* settles, one way or the other, or its retry timer fires.
Settle(r, statuses) == Network(r, statuses) \/ HealthFailAgain(r)

NextOneLive ==
  \/ \E a \in LifeArgs : Request(1, a)
  \/ Settle(1, Statuses)

\* One call, over every status, whose health checks may fail for ever, under
\* a fair event loop: every pending fetch and json() settles and every
\* pending timer fires.
SpecOneLive ==
  Init /\ [][NextOneLive]_vars /\ WF_vars(Settle(1, Statuses))

\* The calls of the restart watch: shouldWatchServerRestart = true.
WatchArgs == {a \in LifeArgs : a.watch}

\* What the event loop does for a watched call whose main response, if any,
\* is a 200.
Poll(r) ==
  \/ MainFetchResolve(r, {200})
  \/ MainFetchFail(r)
  \/ JsonResolve(r)
  \/ JsonReject(r)
  \/ HealthResolve(r)
  \/ HealthFail(r)
  \/ HealthFailAgain(r)
  \/ TimerFire(r)

NextLive ==
  \/ \E r \in Reqs, a \in WatchArgs : Request(r, a)
  \/ \E r \in Reqs : Poll(r)

\* Concurrent watched calls, under the same fair event loop.
SpecLive ==
  Init /\ [][NextLive]_vars /\ \A r \in Reqs : WF_vars(Poll(r))

----------------------------------------------------------------------------
(* The widget's events.  widget.entered records, per file of the value,    *)
(* the caption the user entered for it: the text typed while the file was  *)
(* the one shown, or the text typed into its slot before the file came.    *)

\* The user picks or drops n files.
AddFilesToProps(n) ==
  /\ Len(widget.value) + n <= MaxFiles
  /\ LET files == FileList(widget, n)
         w2 == addFilesToProps(widget, files)
     IN  widget' =
           [w2 EXCEPT !.entered =
              [f \in FileIds |->
                 IF \E k \in 1..Len(files) : files[k] = f /\ ~widget.isString
                   THEN LET i == CHOOSE i \in 1..Len(w2.value) : w2.value[i].id = f
                        IN  At(widget.captions, i - 1)
                   ELSE @[f]]]
  /\ UNCHANGED <<token, location, locked, req>>

\* The user clicks the delete button of the details, rendered when
\* isVisibleDetails().
HandleFileDelete ==
  /\ isVisibleDetails(widget)
  /\ LET w2 == handleFileDelete(widget)
     IN  widget' =
           [w2 EXCEPT !.entered =
              [f \in FileIds |-> IF f \in IdsOf(w2.value) THEN @[f] ELSE Undefined]]
  /\ UNCHANGED <<token, location, locked, req>>

\* The user types a caption.
AddCaptionToValue(text) ==
  /\ LET w2 == addCaptionToValue(widget, text)
     IN  widget' =
           IF ~widget.isString /\ widget.position < Len(widget.value)
             THEN [w2 EXCEPT !.entered[widget.value[widget.position + 1].id] = text]
             ELSE w2
  /\ UNCHANGED <<token, location, locked, req>>

\* The preview moves to another file of the value.
UpdateFilePosition(newPosition) ==
  /\ isVisibleDetails(widget)
  /\ newPosition < Len(widget.value)
  /\ widget' = updateFilePosition(widget, newPosition, Len(widget.value))
  /\ UNCHANGED <<token, location, locked, req>>

NextWidget ==
  \/ \E n \in 0..MaxDrop : AddFilesToProps(n)
  \/ HandleFileDelete
  \/ \E text \in CaptionTexts : AddCaptionToValue(text)
  \/ \E newPosition \in 0..(MaxFiles - 1) : UpdateFilePosition(newPosition)

\* The widget alone: no call of request() is made.
InitWidget == Init /\ token = NoToken

SpecWidget == InitWidget /\ [][NextWidget]_vars

----------------------------------------------------------------------------
(* Properties.                                                             *)

Count(acts, op) == Cardinality({i \in 1..Len(acts) : acts[i].op = op})
Did(q, op) == Count(q.acts, op) > 0
\* Every op act of the log comes after some first act.
Precedes(acts, first, op) ==
  \A i \in 1..Len(acts) :
    acts[i].op = op => \E j \in 1..(i - 1) : acts[j].op = first
Settled(q) == q.phase \in {"resolved", "rejected"}
Pending(q) == q.result = NoResult
Is2xx(q) == q.status >= 200 /\ q.status < 300
\* What parseJSON yields for the main response of call q.
ParsedBody(q) ==
  IF q.hasJson THEN JsonOf(MainResponse(q.id)) ELSE MainResponse(q.id)
Last(s) == s[Len(s)]

\* C1: a watched call whose main response is 2xx and whose first successful
\* health check follows n >= 0 failed ones calls lockApp once, before every
\* health check and before unlockApp, calls unlockApp once, after the n + 1
\* checks, and then resolves with the parsed body of the main response.
C1_LockOnceUnlockOnceThenResolve ==
  \A r \in Reqs :
    LET q == req[r] IN
    (q.watch /\ Is2xx(q) /\ q.phase \in {"health", "timer", "resolved"}) =>
      /\ Count(q.acts, "lockApp") = 1
      /\ Precedes(q.acts, "lockApp", "fetch /_health")
      /\ Precedes(q.acts, "lockApp", "unlockApp")
      /\ q.phase # "resolved" => Count(q.acts, "unlockApp") = 0 /\ Pending(q)
      /\ q.phase = "resolved" =>
           /\ Count(q.acts, "unlockApp") = 1
           /\ Last(q.acts) = UnlockAct
           /\ Count(q.acts, "fetch /_health") = q.fails + 1
           /\ q.result.kind = "value"
           /\ q.result.value = ParsedBody(q)

C1_Witness ==
  \E r \in Reqs :
    /\ req[r].watch /\ req[r].phase = "resolved"
    /\ req[r].fails = 2 /\ req[r].hasJson

\* C2: a 401 checked while a token is stored issues GET <backendURL>/user/me
\* with the token; while that call is pending nothing else happens; once it
\* has resolved the redirect to the login URL and then clearAppStorage()
\* follow; the HTTP error rejects the call only after both; the call never
\* resolves.
C2_RevalidateRedirectClearReject ==
  \A r \in Reqs :
    LET q == req[r] IN
    (q.status = 401 /\ q.tokAtCheck # NoToken) =>
      /\ Len(q.acts) >= 2
      /\ q.acts[2] = Act("fetch /user/me", "GET", BackendURL \o <<"/user/me">>,
                         "Bearer " \o q.tokAtCheck, 0)
      /\ q.userme = "pending" => Len(q.acts) = 2 /\ Pending(q)
      /\ q.userme \in {"2xx", "error status"} =>
           /\ Len(q.acts) = 4
           /\ q.acts[3] = Act("redirect", "",
                  RemoteURL \o <<"/plugins/users-permissions/auth/login">>, "", 0)
           /\ q.acts[4].op = "clearAppStorage"
           /\ location = RemoteURL \o <<"/plugins/users-permissions/auth/login">>
           /\ token = NoToken
      /\ q.result.kind = "http" =>
           Did(q, "redirect") /\ Did(q, "clearAppStorage")
      /\ q.phase # "resolved"

C2_Witness ==
  \E r \in Reqs :
    /\ req[r].status = 401 /\ req[r].tokAtCheck = Tok
    /\ req[r].userme = "2xx"
    /\ req[r].phase = "rejected" /\ req[r].result.kind = "http"

C5_Every2xxResolves ==
  \A r \in Reqs :
    LET q == req[r] IN
    (q.fetch = "resolved" /\ Is2xx(q) /\ ~q.watch) =>
      /\ Len(q.acts) = 1 /\ q.acts[1].op = "fetch"
      /\ Settled(q) =>
           /\ q.phase = "resolved"
           /\ q.result.kind = "value"
           /\ q.result.value = ParsedBody(q)

\* C5, amended: a 2xx main response of an unwatched call whose body parses
\* as JSON (or which has no json()) resolves the call with the parsed body;
\* when json() rejects the call rejects with that failure; either way the
\* call makes no /user/me call, no redirect, no clearing, no lockApp and no
\* unlockApp.
C5_Parsed2xxResolves ==
  \A r \in Reqs :
    LET q == req[r] IN
    (q.fetch = "resolved" /\ Is2xx(q) /\ ~q.watch) =>
      /\ Len(q.acts) = 1 /\ q.acts[1].op = "fetch"
      /\ (Settled(q) /\ q.json # "failed") =>
           /\ q.phase = "resolved"
           /\ q.result.kind = "value"
           /\ q.result.value = ParsedBody(q)
      /\ q.json = "failed" => q.phase = "rejected" /\ q.result.kind = "syntax"
      /\ (~q.hasJson) => Settled(q)

C5_Witness ==
  \E r \in Reqs :
    /\ ~req[r].watch /\ req[r].status = 299 /\ req[r].hasJson
    /\ req[r].phase = "resolved"

\* C6: once a failed health check has happened the call is never rejected:
\* it waits for the 100 ms timer, which can always fire, or for the next
\* HEAD <backendURL>/_health it issued, with unlockApp not called, and it
\* settles only by a health check that succeeds.
C6_FailedChecksAreRetried ==
  \A r \in Reqs :
    LET q == req[r] IN
    q.fails >= 1 =>
      \/ /\ q.phase = "timer"
         /\ Pending(q)
         /\ ~Did(q, "unlockApp")
         /\ Last(q.acts) = Act("setTimeout", "", <<>>, "", 100)
         /\ Count(q.acts, "fetch /_health") = q.fails
         /\ ENABLED TimerFire(r)
      \/ /\ q.phase = "health"
         /\ Pending(q)
         /\ ~Did(q, "unlockApp")
         /\ Last(q.acts) = Act("fetch /_health", "HEAD",
                               BackendURL \o <<"/_health">>, "", 0)
         /\ Count(q.acts, "fetch /_health") = q.fails + 1
      \/ /\ q.phase = "resolved"
         /\ Last(q.acts).op = "unlockApp"
         /\ Count(q.acts, "fetch /_health") = q.fails + 1

C6_Witness ==
  \E r \in Reqs :
    /\ req[r].phase = "health" /\ req[r].fails = MaxHealthFails
    /\ Pending(req[r])

RECURSIVE Polls(_)
\* n failed health checks, each followed by the retry timer.
Polls(n) == IF n = 0 THEN <<>> ELSE <<HealthAct, TimerAct>> \o Polls(n - 1)

ValueResult(v) == [NoResult EXCEPT !.kind = "value", !.value = v]
HttpResult(q) ==
  [NoResult EXCEPT !.kind = "http",
                   !.message = StatusTextOf(MainResponse(q.id)),
                   !.response = MainResponse(q.id),
                   !.payload = ParsedBody(q)]
FailResult(kind, message) ==
  [NoResult EXCEPT !.kind = kind, !.message = message]

\* What a settled call did and how it ended, as determined by its own
\* arguments, its own network completions and the token the store held when
\* its response was checked.
Expected(q, tokAtCheck) ==
  LET fetched == <<FetchAct(q.sent.url)>> IN
  IF q.fetch = "failed"
    THEN [acts |-> fetched,
          result |-> FailResult("network", NetworkError("main", q.id))]
  ELSE IF Is2xx(q)
    THEN IF q.json = "failed"
           THEN [acts |-> fetched, result |-> FailResult("syntax", None)]
         ELSE IF q.watch
           THEN [acts |-> fetched \o <<LockAct>> \o Polls(q.fails)
                            \o <<HealthAct, UnlockAct>>,
                 result |-> ValueResult(ParsedBody(q))]
         ELSE [acts |-> fetched, result |-> ValueResult(ParsedBody(q))]
  ELSE IF q.status = 401 /\ tokAtCheck # NoToken
    THEN IF q.userme \in {"2xx", "error status"}
           THEN [acts |-> fetched \o <<UserMeAct(tokAtCheck), RedirectAct, ClearAct>>,
                 result |-> IF q.json = "failed" THEN FailResult("syntax", None)
                            ELSE HttpResult(q)]
           ELSE [acts |-> fetched \o <<UserMeAct(tokAtCheck)>>,
                 result |-> FailResult("network", NetworkError("user/me", q.id))]
  ELSE [acts |-> fetched,
        result |-> IF q.json = "failed" THEN FailResult("syntax", None)
                   ELSE HttpResult(q)]

\* The headers of a call with default options made while the store holds tok.
ExpectedHeaders(tok) ==
  [k \in {"Content-Type", "X-Forwarded-Host"}
         \cup (IF tok # NoToken THEN {"Authorization"} ELSE {}) |->
     CASE k = "Content-Type" -> "application/json"
       [] k = "X-Forwarded-Host" -> "strapi"
       [] k = "Authorization" -> "Bearer " \o tok]

Outcome(q) == [acts |-> q.acts, result |-> q.result]

\* C7 as claimed: whatever the interleaving, a settled call did what it does
\* when it runs alone from the token store of its call (alone, the store its
\* response is checked against is the store it was called with).
C7_SameAsAlone ==
  \A r \in Reqs :
    LET q == req[r] IN
    Settled(q) =>
      /\ q.sent.headers = ExpectedHeaders(q.tokAtCall)
      /\ Outcome(q) = Expected(q, q.tokAtCall)

\* C7, amended: a call's dispatched headers are those of the token store at
\* its call, and what it does and how it settles are determined by its own
\* arguments and network completions and by the token store at the moment
\* its response is checked.  That store differs from the one at the call
\* only when another call's 401 handling cleared it in between; then a 401
\* makes no /user/me call, no redirect and no clearing and rejects with the
\* HTTP error at once.  Otherwise the call behaves as when it runs alone.
C7_IndependentButForTheToken ==
  \A r \in Reqs :
    LET q == req[r] IN
    /\ Settled(q) =>
         /\ q.sent.headers = ExpectedHeaders(q.tokAtCall)
         /\ Outcome(q) = Expected(q, q.tokAtCheck)
    /\ (q.fetch = "resolved" /\ q.tokAtCheck # q.tokAtCall) =>
         /\ q.tokAtCheck = NoToken
         /\ \E p \in Reqs \ {r} : Did(req[p], "clearAppStorage")

C7_Witness ==
  \E r, p \in Reqs :
    /\ r # p
    /\ Did(req[p], "clearAppStorage")
    /\ req[r].status = 401 /\ req[r].tokAtCall = Tok
    /\ req[r].tokAtCheck = NoToken
    /\ req[r].phase = "rejected" /\ req[r].result.kind = "http"
    /\ req[r].acts = <<FetchAct(req[r].sent.url)>>

IsPrefix(p, s) == Len(p) <= Len(s) /\ SubSeq(s, 1, Len(p)) = p

\* The body's originals are dispatched first and unmodified; what follows
\* them are, per field, one `<field>Captions` string per File entry of the
\* field, in the order of those entries, each the entry's caption as
\* FormData stores it; nothing else is appended.
CaptionsAdded(orig, out) ==
  /\ IsPrefix(orig, out)
  /\ LET added == SubSeq(out, Len(orig) + 1, Len(out))
         fields == {orig[i].name : i \in 1..Len(orig)}
     IN  /\ \A f \in fields :
               LET files == SelectSeq(orig, LAMBDA e : e.name = f /\ e.isFile)
                   caps == SelectSeq(added, LAMBDA e : e.name = f \o "Captions")
               IN  /\ Len(caps) = Len(files)
                   /\ \A i \in 1..Len(caps) :
                        /\ ~caps[i].isFile
                        /\ caps[i].value =
                             (IF files[i].caption = Undefined THEN "undefined"
                              ELSE files[i].caption)
         /\ \A i \in 1..Len(added) :
               \E f \in fields : added[i].name = f \o "Captions"

\* C8: a call with stringify=false and a multipart body dispatches the body
\* with its original entries unmodified and, for each field that held a
\* File, one `<field>Captions` entry per File entry of that field, in order,
\* each equal to that file's caption; other entries add nothing.
C8_CaptionsAppended ==
  \A r \in Reqs :
    LET q == req[r] IN
    (q.phase # "idle" /\ ~q.stringify /\ q.options.hasBody) =>
      /\ q.sent.body.present /\ ~q.sent.body.json
      /\ CaptionsAdded(q.options.body, q.sent.body.entries)

\* C9 as claimed: a url that starts with "/" is dispatched as backendURL
\* followed by the url and nothing else; any other url is dispatched with no
\* prefix put before it.
C9_DispatchedURLIsBackendPlusPath ==
  \A r \in Reqs :
    LET q == req[r] IN
    q.phase # "idle" =>
      IF Len(q.url) > 0 /\ q.url[1] = "/"
        THEN q.sent.url = BackendURL \o q.url
        ELSE IsPrefix(q.url, q.sent.url)

\* C9, amended: a url that starts with "/" is dispatched as backendURL
\* followed by the url, any other url as it is; when options.params is
\* given, and only then, a "?" and the query string follow.
C9_DispatchedURLStartsWithBackendPlusPath ==
  \A r \in Reqs :
    LET q == req[r]
        base == IF Len(q.url) > 0 /\ q.url[1] = "/"
                  THEN BackendURL \o q.url ELSE q.url
    IN  q.phase # "idle" =>
          /\ IsPrefix(base, q.sent.url)
          /\ ~q.options.hasParams => q.sent.url = base
          /\ q.options.hasParams =>
               /\ Len(q.sent.url) > Len(base)
               /\ q.sent.url[Len(base) + 1] = "?"

C9_Witness ==
  \E r \in Reqs :
    /\ req[r].phase # "idle"
    /\ req[r].url = <<"/", "a">>
    /\ req[r].options.hasParams /\ Len(req[r].options.params) = 1
    /\ req[r].sent.url # BackendURL \o req[r].url

RECURSIVE Split(_, _)
\* The pieces of s between the occurrences of the character c.
Split(s, c) ==
  IF \A i \in 1..Len(s) : s[i] # c THEN <<s>>
  ELSE LET i == CHOOSE k \in 1..Len(s) :
                  s[k] = c /\ \A j \in 1..(k - 1) : s[j] # c
       IN  <<SubSeq(s, 1, i - 1)>> \o Split(SubSeq(s, i + 1, Len(s)), c)

HexDigits == {"0", "1", "2", "3", "4", "5", "6", "7", "8", "9",
              "A", "B", "C", "D", "E", "F"}

RECURSIVE WellEncoded(_)
\* Only unreserved characters and %XX escapes.
WellEncoded(s) ==
  IF s = <<>> THEN TRUE
  ELSE IF s[1] = "%"
    THEN /\ Len(s) >= 3 /\ s[2] \in HexDigits /\ s[3] \in HexDigits
         /\ WellEncoded(SubSeq(s, 4, Len(s)))
  ELSE s[1] \in {"a", "b", "1", "-", "_", "."} /\ WellEncoded(Tail(s))

\* The character a %XX escape stands for (ASCII).
Unescaped(h, l) ==
  CASE <<h, l>> = <<"2", "0">> -> " "
    [] <<h, l>> = <<"2", "5">> -> "%"
    [] <<h, l>> = <<"2", "6">> -> "&"
    [] <<h, l>> = <<"2", "F">> -> "/"
    [] <<h, l>> = <<"3", "D">> -> "="
    [] <<h, l>> = <<"3", "F">> -> "?"
    [] OTHER -> "<invalid>"

RECURSIVE PercentDecode(_)
PercentDecode(s) ==
  IF s = <<>> THEN <<>>
  ELSE IF s[1] = "%" /\ Len(s) >= 3
    THEN <<Unescaped(s[2], s[3])>> \o PercentDecode(SubSeq(s, 4, Len(s)))
  ELSE <<s[1]>> \o PercentDecode(Tail(s))

\* C10: with options.params given, the dispatched URL is the normalized URL,
\* a "?" and a query string that is, in the object's key order and joined by
\* "&", one key=value pair per entry, key and value percent-encoded (so that
\* splitting at "&" and "=" and decoding gives the entries back).
C10_QueryStringHasOnePairPerEntry ==
  \A r \in Reqs :
    LET q == req[r]
        params == q.options.params
        base == (IF Len(q.url) > 0 /\ q.url[1] = "/"
                   THEN BackendURL \o q.url ELSE q.url) \o <<"?">>
        query == SubSeq(q.sent.url, Len(base) + 1, Len(q.sent.url))
        pairs == IF query = <<>> THEN <<>> ELSE Split(query, "&")
    IN  (q.phase # "idle" /\ q.options.hasParams) =>
          /\ IsPrefix(base, q.sent.url)
          /\ Len(pairs) = Len(params)
          /\ \A i \in 1..Len(pairs) :
               LET kv == Split(pairs[i], "=")
               IN  /\ Len(kv) = 2
                   /\ WellEncoded(kv[1]) /\ WellEncoded(kv[2])
                   /\ PercentDecode(kv[1]) = params[i][1]
                   /\ PercentDecode(kv[2]) = params[i][2]

C10_Witness ==
  \E r \in Reqs :
    /\ req[r].phase # "idle" /\ req[r].options.hasParams
    /\ Len(req[r].options.params) = 2
    /\ req[r].options.params[1] = <<<<"a", "&">>, <<"&", "=">>>>
    /\ req[r].options.params[2] = <<<<"=">>, <<"%", " ">>>>

----------------------------------------------------------------------------
\* C11: without options.headers the dispatched headers are Content-Type:
\* application/json and X-Forwarded-Host: strapi, plus Authorization: Bearer
\* <token> exactly when the store holds a token at the call; with caller
\* headers, every caller header (Authorization included) is dispatched with
\* the caller's value, and the token's Authorization is there only when the
\* caller gave none (and then exactly when a token is stored).
C11_HeadersDefaultedThenCallerWins ==
  \A r \in Reqs :
    LET q == req[r]
        out == q.sent.headers
        given == q.options.headers
    IN  q.phase # "idle" =>
          /\ ~q.options.hasHeaders =>
               /\ DOMAIN out = {"Content-Type", "X-Forwarded-Host"}
                      \cup (IF q.tokAtCall # NoToken THEN {"Authorization"} ELSE {})
               /\ out["Content-Type"] = "application/json"
               /\ out["X-Forwarded-Host"] = "strapi"
               /\ q.tokAtCall # NoToken =>
                    out["Authorization"] = "Bearer " \o q.tokAtCall
          /\ q.options.hasHeaders =>
               /\ \A k \in DOMAIN given : k \in DOMAIN out /\ out[k] = given[k]
               /\ ("Authorization" \in DOMAIN out /\ "Authorization" \notin DOMAIN given)
                    <=> (q.tokAtCall # NoToken /\ "Authorization" \notin DOMAIN given)
               /\ ("Authorization" \in DOMAIN out /\ "Authorization" \notin DOMAIN given)
                    => out["Authorization"] = "Bearer " \o q.tokAtCall

C11_Witness ==
  \E r \in Reqs :
    /\ req[r].phase # "idle" /\ req[r].options.hasHeaders
    /\ req[r].tokAtCall = Tok
    /\ "Authorization" \in DOMAIN req[r].options.headers
    /\ req[r].sent.headers["Authorization"] = "Basic x"

----------------------------------------------------------------------------
\* C12: a call makes the /user/me call, the redirect to the login URL and
\* clearAppStorage() only if its main response has status 401 and the store
\* held a token when that response was checked; a step of any other call
\* (not dispatched yet, failed, 2xx, another error status, 401 without a
\* token) does none of the three and leaves the token store and the location
\* as they were.
C12_RevalidationOnlyFor401WithToken ==
  [][\A r \in Reqs :
       LET q == req'[r]
           case401 == q.fetch = "resolved" /\ q.status = 401
                      /\ q.tokAtCheck # NoToken
       IN  /\ (\/ Did(q, "fetch /user/me") \/ Did(q, "redirect")
               \/ Did(q, "clearAppStorage") \/ q.userme # "none") => case401
           /\ (req[r] # q /\ ~case401) =>
                token' = token /\ location' = location]_vars

C12_Witness ==
  \E r \in Reqs :
    /\ req[r].status = 402 /\ req[r].tokAtCheck = Tok
    /\ req[r].phase = "rejected" /\ req[r].result.kind = "http"
    /\ req[r].acts = <<FetchAct(req[r].sent.url)>>
    /\ token = Tok /\ location = AppURL

----------------------------------------------------------------------------
\* checkStatus(response, false) has run for call q: the error body is being
\* parsed, or was, or the HTTP error is thrown.
Rechecked(q) == q.jsonFor = "error" \/ q.result.kind = "http"

AtMostOnceEach(q) ==
  /\ Count(q.acts, "fetch /user/me") <= 1
  /\ Count(q.acts, "redirect") <= 1
  /\ Count(q.acts, "clearAppStorage") <= 1

\* C13 as claimed: a call makes the /user/me call at most once and the
\* redirect and the clearing at most once; once the /user/me call has
\* settled, resolved or failed, checkStatus has been re-invoked with
\* checkToken = false, and the call is eventually rejected.
C13_SettledRevalidationRechecks ==
  /\ [](\A r \in Reqs :
          /\ AtMostOnceEach(req[r])
          /\ req[r].userme \in {"2xx", "error status", "failed"} =>
               Rechecked(req[r]))
  /\ \A r \in Reqs :
       (req[r].userme \in {"2xx", "error status", "failed"})
         ~> (req[r].phase = "rejected")

\* C13, amended: a call makes the /user/me call at most once and the
\* redirect and the clearing at most once; once the /user/me call has
\* resolved, checkStatus has been re-invoked with checkToken = false (no
\* second /user/me call follows); when the /user/me call fails, checkStatus
\* is not re-invoked and the call is rejected with that failure at once;
\* either way, under a fair event loop, the call is eventually rejected.
C13_RecheckedOnceThenRejected ==
  /\ [](\A r \in Reqs :
          LET q == req[r] IN
          /\ AtMostOnceEach(q)
          /\ q.userme \in {"2xx", "error status"} =>
               /\ Rechecked(q)
               /\ Count(q.acts, "fetch /user/me") = 1
               /\ q.phase \in {"json", "rejected"}
          /\ q.userme = "failed" =>
               /\ ~Rechecked(q)
               /\ q.phase = "rejected" /\ q.result.kind = "network"
          /\ q.userme # "none" => q.phase # "resolved")
  /\ \A r \in Reqs :
       (req[r].userme \in {"2xx", "error status", "failed"})
         ~> (req[r].phase = "rejected")

C13_Witness ==
  \E r \in Reqs :
    /\ req[r].status = 401 /\ req[r].userme = "error status"
    /\ req[r].jsonFor = "error" /\ req[r].json = "failed"
    /\ req[r].phase = "rejected"
    /\ Count(req[r].acts, "fetch /user/me") = 1

----------------------------------------------------------------------------
\* Call q has entered the restart watch; its health check has succeeded.
Watching(q) == Did(q, "lockApp")
Unlocked(q) == Did(q, "unlockApp")

\* C14: under a fair event loop, if the health endpoint eventually answers
\* the checks of a call with a success (it does not fail every one of the
\* checks the call keeps issuing), every call that entered the restart watch
\* eventually calls unlockApp and resolves; as long as no health check of a
\* call has succeeded the call is pending, polling or waiting for its timer,
\* with unlockApp not called, and as long as no health check at all has
\* succeeded the app stays locked.
C14_WatchEndsIffHealthAnswers ==
  /\ (\A r \in Reqs : SF_vars(HealthResolve(r))) =>
       \A r \in Reqs :
         Watching(req[r]) ~> (Unlocked(req[r]) /\ req[r].phase = "resolved")
  /\ [](\A r \in Reqs :
          (Watching(req[r]) /\ ~Unlocked(req[r])) =>
            /\ Pending(req[r])
            /\ req[r].phase \in {"health", "timer"})
  /\ []((/\ \E r \in Reqs : Watching(req[r])
         /\ \A r \in Reqs : ~Unlocked(req[r])) => locked)

C14_Witness ==
  \E r, p \in Reqs :
    /\ Watching(req[r]) /\ Unlocked(req[r]) /\ req[r].phase = "resolved"
    /\ req[r].fails = MaxHealthFails
    /\ Watching(req[p]) /\ ~Unlocked(req[p]) /\ req[p].phase = "timer"
    /\ req[p].fails = MaxHealthFails

----------------------------------------------------------------------------
\* The restart watch of call q is polling: a health check is in flight or
\* the retry timer is pending.
Polling(q) == q.phase \in {"health", "timer"}

\* C15 as claimed: in no reachable state is the app unlocked while some
\* call's restart watch is still polling.
C15_LockedWhilePolling ==
  \A r \in Reqs : Polling(req[r]) => locked

\* C15, amended: a call that enters the restart watch locks the app; while
\* its watch is polling the app is unlocked only by the success of another
\* call's health check, so the app is unlocked while a watch polls only if
\* another call's health check has succeeded; a watch that runs with no
\* other call's check succeeding keeps the app locked until its own succeeds.
C15_UnlockedOnlyByAHealthSuccess ==
  [][\A r \in Reqs :
       LET q == req[r]
           q2 == req'[r]
       IN  /\ (~Polling(q) /\ Polling(q2)) => locked'
           /\ (Polling(q) /\ Polling(q2) /\ locked /\ ~locked') =>
                \E p \in Reqs \ {r} :
                  ~Unlocked(req[p]) /\ Unlocked(req'[p])
           /\ (Polling(q2) /\ ~locked') =>
                \E p \in Reqs \ {r} : Unlocked(req'[p])
           /\ (Polling(q) /\ ~Polling(q2)) =>
                (Unlocked(q2) /\ q2.phase = "resolved" /\ ~locked')]_vars

C15_Witness ==
  \E r, p \in Reqs :
    /\ r # p
    /\ Polling(req[r]) /\ req[r].fails >= 1
    /\ Unlocked(req[p]) /\ req[p].phase = "resolved"
    /\ ~locked

----------------------------------------------------------------------------
\* The main request of call q has failed: the fetch rejected, the status is
\* outside [200,300), or json() rejected.
MainFailed(q) ==
  \/ q.fetch = "failed"
  \/ q.fetch = "resolved" /\ ~Is2xx(q)
  \/ q.json = "failed"

\* C16: lockApp is called only by a watched call whose main response is a
\* 2xx that has been parsed; a watched call whose main request fails calls
\* neither lockApp nor unlockApp and issues no health check; a call never
\* has more unlockApp calls than lockApp calls, every health check and every
\* unlockApp comes after the lockApp, and, with a single call, the app is
\* locked only while a health check is in flight or a retry timer pending.
C16_LockOnlyAfterParsed2xx ==
  /\ \A r \in Reqs :
       LET q == req[r] IN
       /\ Did(q, "lockApp") =>
            /\ q.watch /\ q.fetch = "resolved" /\ Is2xx(q)
            /\ q.hasJson => q.json = "resolved"
            /\ q.value = ParsedBody(q)
       /\ (q.watch /\ MainFailed(q)) =>
            /\ ~Did(q, "lockApp") /\ ~Did(q, "unlockApp")
            /\ ~Did(q, "fetch /_health") /\ ~Did(q, "setTimeout")
            /\ q.phase \in {"json", "userme", "rejected"}
       /\ Count(q.acts, "unlockApp") <= Count(q.acts, "lockApp")
       /\ Precedes(q.acts, "lockApp", "fetch /_health")
       /\ Precedes(q.acts, "lockApp", "unlockApp")
  /\ locked => \E r \in Reqs : Polling(req[r])

C16_Witness ==
  \E r \in Reqs :
    /\ req[r].watch /\ req[r].status = 204 /\ req[r].json = "failed"
    /\ req[r].phase = "rejected"
    /\ ~Did(req[r], "lockApp") /\ ~locked

----------------------------------------------------------------------------
\* The captions list is aligned with the value: at every index of the value
\* it holds the caption entered for the file there (undefined when none).
Aligned(w) ==
  \A i \in 0..(Len(w.value) - 1) :
    At(w.captions, i) = w.entered[w.value[i + 1].id]

\* The array a without its element at index i.
Without(a, i) ==
  [k \in 1..(Len(a) - 1) |-> IF k <= i THEN a[k] ELSE a[k + 1]]

\* C17: after any sequence of caption edits, file additions and file
\* deletions the captions list is aligned with the value, and deleting the
\* file at position p removes exactly the caption at index p and keeps the
\* captions of the other files.
C17_CaptionsStayAligned ==
  [][/\ Aligned(widget')
     /\ HandleFileDelete =>
          widget'.captions =
            (IF widget.position < Len(widget.captions)
               THEN Without(widget.captions, widget.position)
               ELSE widget.captions)]_vars

\* C18: handleFileDelete at position p of a value of n files emits a change
\* event whose value is the value without the file at index p, the others
\* in their order, or '' when none is left; the position becomes n - 2, or 0
\* when none is left; the label becomes position + 1, or false when none is
\* left; the position is then an index of the new value, or 0.
C18_DeleteRemovesTheFileAtPosition ==
  [][HandleFileDelete =>
       LET n == Len(widget.value)
           p == widget.position
           w2 == widget'
       IN  /\ p < n
           /\ w2.event.by = "handleFileDelete" /\ w2.event.type = "file"
           /\ n = 1 =>
                /\ w2.event.isString /\ w2.isString
                /\ w2.position = 0
                /\ ~w2.label.shown
           /\ n > 1 =>
                /\ ~w2.event.isString
                /\ w2.event.value = Without(widget.value, p)
                /\ w2.value = w2.event.value
                /\ w2.position = n - 2
                /\ w2.label.shown /\ w2.label.number = w2.position + 1
           /\ w2.position = 0 \/ w2.position < Len(w2.value)]_vars

C18_Witness ==
  /\ widget.event.by = "handleFileDelete"
  /\ Len(widget.value) = 2
  /\ widget.value[1].id = 1 /\ widget.value[2].id = 3
  /\ widget.position = 1
  /\ widget.label = [shown |-> TRUE, number |-> 2]

====
